---- MODULE Spec2Model ----
(***************************************************************************)
(* Live transcription of MeetingMindAI: the WebSocket connection handler   *)
(* (src/api/routes/websocket.py), the per-session LiveTranscriptionService *)
(* (src/core/live_transcription.py), the process-wide active_sessions      *)
(* table and the meeting rows the handler creates and completes.           *)
(*                                                                         *)
(* Conventions.                                                            *)
(*  - A text is the sequence of its characters, each character the code  *)
(*    point ord() gives (a Python str is a sequence of code points), so    *)
(*    that strip(), " ".join() and split() are computed, not assumed.      *)
(*  - An audio chunk is modelled by its number of samples; a duration is   *)
(*    the Python float the code computes, kept exactly (see FloatAdd).     *)
(*  - Python's None is the empty sequence, a present value x is <<x>>;     *)
(*    meeting_id None is 0 (row ids start at 1).                           *)
(*  - `now` is datetime.utcnow() in ticks; a recognition call takes at     *)
(*    least one tick.                                                      *)
(***************************************************************************)
EXTENDS Integers, Sequences, FiniteSets, TLC

\* ------------------------------------------------------------------ bounds
MaxTime == 2
MaxMeetings == 2
MaxFinalize == 2
MaxTinySamples == 102
MaxUploads == 2
MaxDeletes == 1
MaxLateChunks == 2

\* ------------------------------------------------------- program constants
SampleRate == 16000
MinBufferSeconds == 3
BufferMaxLen == 100
MaxRetries == 3
RetryBaseSeconds == 60

MinBufferSamples == MinBufferSeconds * SampleRate

\* The connections of the model: session ids are uuid4 strings.
Sessions == {"s1", "s2"}

\* The connection the single-session specification drives.
Solo == {"s1"}

None == <<>>
Some(x) == <<x>>
IsNone(o) == o = <<>>
Get(o) == o[1]

\* ------------------------------------------------ Python float (binary64)
\* buffer_duration is a Python float: `len(audio_array) / 16000.0` and `+=`
\* round to 53 significant bits, ties to even.  Every float that occurs is
\* zero or at least 2^-14 seconds, hence a whole multiple of 2^-66; a float
\* is kept exactly, as the integer value * 2^67 written in base 2^22, least
\* significant limb first (four limbs, below 2^21 seconds).
RECURSIVE Pow2(_)
Pow2(n) == IF n = 0 THEN 1 ELSE 2 * Pow2(n - 1)

LimbBits == 22
Limbs == 4
MantissaBits == 53

\* 2^0 .. 2^22
Pow2Table == [n \in 0..LimbBits |-> Pow2(n)]

LimbBase == Pow2Table[LimbBits]

\* F(e), with e evaluated once
Bind(e, F(_)) == CHOOSE y \in {F(v) : v \in {e}} : TRUE

RECURSIVE BitLen(_)
BitLen(x) == IF x = 0 THEN 0 ELSE 1 + BitLen(x \div 2)

BigBitLen(V) ==
    IF V[4] # 0 THEN 3 * LimbBits + BitLen(V[4])
    ELSE IF V[3] # 0 THEN 2 * LimbBits + BitLen(V[3])
    ELSE IF V[2] # 0 THEN LimbBits + BitLen(V[2])
    ELSE BitLen(V[1])

Limb(V, j) == IF j >= 1 /\ j <= Limbs THEN V[j] ELSE 0

\* V div 2^r, for limbs V and a number r
BigShr(V, r) ==
    Bind(r \div LimbBits, LAMBDA k :
    Bind(Pow2Table[r % LimbBits], LAMBDA lo :
    Bind(Pow2Table[LimbBits - (r % LimbBits)], LAMBDA hi :
        [i \in 1..Limbs |->
            (Limb(V, i + k) \div lo) + (Limb(V, i + k + 1) % lo) * hi])))

\* V * 2^r
BigShl(V, r) ==
    Bind(r \div LimbBits, LAMBDA k :
    Bind(Pow2Table[r % LimbBits], LAMBDA lo :
    Bind(Pow2Table[LimbBits - (r % LimbBits)], LAMBDA hi :
        [i \in 1..Limbs |->
            (Limb(V, i - k) % hi) * lo + (Limb(V, i - k - 1) \div hi)])))

\* A + B, the carries rippling upwards
BigAdd(A, B) ==
    Bind(A, LAMBDA a : Bind(B, LAMBDA b :
        LET s1 == a[1] + b[1]
            s2 == a[2] + b[2] + (s1 \div LimbBase)
            s3 == a[3] + b[3] + (s2 \div LimbBase)
            s4 == a[4] + b[4] + (s3 \div LimbBase)
        IN << s1 % LimbBase, s2 % LimbBase, s3 % LimbBase, s4 % LimbBase >>))

BigGeq(A, B) ==
    Bind(A, LAMBDA a : Bind(B, LAMBDA b :
        \/ a = b
        \/ \E i \in 1..Limbs :
              a[i] > b[i] /\ \A j \in (i + 1)..Limbs : a[j] = b[j]))

\* Drop the r lowest bits of v, rounding to nearest, ties to even.
RoundBits(v, r, inexact) ==
    Bind(BigShr(v, r - 1), LAMBDA G :
    Bind(BigShr(G, 1), LAMBDA T :
        LET guard == G[1] % 2 = 1
            sticky == inexact \/ BigShl(G, r - 1) # v
            up == IF guard /\ (sticky \/ T[1] % 2 = 1) THEN 1 ELSE 0
        IN BigShl(BigAdd(T, <<up, 0, 0, 0>>), r)))

\* The same when the dropped bits all lie in the lowest limb (r <= 22).
RoundLowLimb(v, r, inexact) ==
    LET q == Pow2Table[r]
        rem == v[1] % q
        odd == IF r = LimbBits THEN v[2] % 2 = 1 ELSE (v[1] \div q) % 2 = 1
        up == \/ 2 * rem > q
              \/ 2 * rem = q /\ (inexact \/ odd)
    IN BigAdd(<<v[1] - rem, v[2], v[3], v[4]>>,
              IF ~up THEN <<0, 0, 0, 0>>
              ELSE IF r = LimbBits THEN <<0, 1, 0, 0>>
              ELSE <<q, 0, 0, 0>>)

\* Round the exact value V (plus a positive fraction of one unit when
\* `inexact`) to the nearest float: 53 significant bits, ties to even.
Round53(V, inexact) ==
    Bind(V, LAMBDA v :
    Bind(BigBitLen(v) - MantissaBits, LAMBDA r :
        IF r <= 0 THEN v
        ELSE IF r <= LimbBits THEN RoundLowLimb(v, r, inexact)
        ELSE RoundBits(v, r, inexact)))

\* float(k) for a small whole number of seconds k
FloatOfInt(k) == <<0, 0, 0, 2 * k>>

FloatZero == FloatOfInt(0)

\* a + b
FloatAdd(a, b) == Round53(BigAdd(a, b), FALSE)

\* a >= b
FloatGeq(a, b) == BigGeq(a, b)

\* n / 16000.0 for a sample count n: the quotient n * 2^60 / 125 by long
\* division (16000 = 125 * 2^7), rounded to a float.
FloatOfSamples(n) ==
    IF n = 0 THEN FloatZero
    ELSE Bind((n % 125) * Pow2Table[16], LAMBDA x2 :
         Bind((x2 % 125) * LimbBase, LAMBDA x1 :
         Bind((x1 % 125) * LimbBase, LAMBDA x0 :
             Round53(<< x0 \div 125, x1 \div 125,
                        (x2 \div 125) + ((n \div 125) % 64) * Pow2Table[16],
                        (n \div 125) \div 64 >>,
                     x0 % 125 > 0))))

\* a > b
FloatGt(a, b) == ~FloatGeq(b, a)

\* ------------------------------------------------------------------- texts
\* ord(" "), the separator of " ".join
SP == 32

\* The code points str.isspace() accepts, which are the ones strip() and
\* split() with no argument treat as whitespace: \t \n \v \f \r, the
\* separators \x1c..\x1f, space, \x85, \xa0, U+1680, U+2000..U+200A,
\* U+2028, U+2029, U+202F, U+205F, U+3000.
Whitespace ==
    (9..13) \cup (28..32) \cup {133, 160, 5760} \cup (8192..8202)
        \cup {8232, 8233, 8239, 8287, 12288}

RECURSIVE LStrip(_)
LStrip(t) ==
    IF t # <<>> /\ Head(t) \in Whitespace THEN LStrip(Tail(t)) ELSE t

RECURSIVE RStrip(_)
RStrip(t) ==
    IF t # <<>> /\ t[Len(t)] \in Whitespace
    THEN RStrip(SubSeq(t, 1, Len(t) - 1))
    ELSE t

\* str.strip(): with no argument it removes leading and trailing whitespace
Strip(t) == RStrip(LStrip(t))

RECURSIVE JoinFrom(_, _)
JoinFrom(texts, i) ==
    IF i > Len(texts) THEN <<>>
    ELSE IF i = Len(texts) THEN texts[i]
    ELSE texts[i] \o <<SP>> \o JoinFrom(texts, i + 1)

JoinNoSep(texts) ==
    IF texts = <<>> THEN <<>>
    ELSE LET F[i \in 0..Len(texts)] == IF i = 0 THEN <<>> ELSE F[i - 1] \o texts[i]
         IN F[Len(texts)]

\* " ".join(texts)
Join(texts) == JoinFrom(texts, 1)

\* len(text.split()): with no argument split() cuts at runs of whitespace,
\* so the count is the number of maximal runs of non-whitespace characters
WordCount(t) ==
    Cardinality({i \in 1..Len(t) :
        t[i] \notin Whitespace /\ (i = 1 \/ t[i - 1] \in Whitespace)})

\* ------------------------------------------------------------ audio decode
\* A transport payload: whether base64.b64decode accepts it (it raises on
\* incorrect padding; with the default validate=False it discards characters
\* outside the alphabet), and the number of bytes it decodes to.
Payload(ok, n) == [present |-> TRUE, b64ok |-> ok, nbytes |-> n]

\* A message whose "data" is missing or empty: `if audio_data:` skips it.
NoData == [present |-> FALSE, b64ok |-> TRUE, nbytes |-> 0]

DecodeSamplesLenient(p) == p.nbytes \div 2

\* base64.b64decode + np.frombuffer(dtype=int16): the chunk's sample count,
\* or -1 when either raises (bad encoding, odd byte length).
DecodeSamples(p) ==
    IF ~p.b64ok THEN -1
    ELSE IF p.nbytes % 2 # 0 THEN -1
    ELSE p.nbytes \div 2

\* ----------------------------------------------- LiveTranscriptionService
\* __init__
NewService(lang, mid, t) ==
    [ audio_buffer |-> <<>>,
      buffer_duration |-> FloatZero,
      full_transcript |-> <<>>,
      start_time |-> t,
      language |-> lang,
      meeting_id |-> mid ]

DequeAppendUncapped(buf, x) == Append(buf, x)

\* deque(maxlen=100).append: the oldest element is discarded when full
DequeAppend(buf, x) ==
    IF Len(buf) >= BufferMaxLen THEN Append(Tail(buf), x) ELSE Append(buf, x)

\* chunk_duration = len(audio_array) / 16000.0
ChunkDuration(samples) == FloatOfSamples(samples)

\* process_audio_chunk up to the threshold test: append and account
BufferChunk(s, samples) ==
    [s EXCEPT !.audio_buffer = DequeAppend(@, samples),
              !.buffer_duration = FloatAdd(@, ChunkDuration(samples))]

\* self.min_buffer_duration = 3.0
MinBufferDuration == FloatOfInt(MinBufferSeconds)

ShouldFlushAlways(s) == TRUE

ShouldFlushAtFive(s) == FloatGeq(s.buffer_duration, FloatOfInt(5))

\* if self.buffer_duration >= self.min_buffer_duration
ShouldFlush(s) == FloatGeq(s.buffer_duration, MinBufferDuration)

\* np.concatenate(list(self.audio_buffer)): the block keeps the chunk order
Concat(buf) == buf

ClearBufferKeepDuration(s) == [s EXCEPT !.audio_buffer = <<>>]

\* self.audio_buffer.clear(); self.buffer_duration = 0.0
ClearBuffer(s) ==
    [s EXCEPT !.audio_buffer = <<>>, !.buffer_duration = FloatZero]

Fragment(text, t, start) == [text |-> text, timestamp |-> t, offset |-> t - start]

AddFragmentFront(s, text, t) ==
    [s EXCEPT !.full_transcript = <<Fragment(text, t, s.start_time)>> \o @]

\* self.full_transcript.append({...})
AddFragment(s, text, t) ==
    [s EXCEPT !.full_transcript = Append(@, Fragment(text, t, s.start_time))]

\* A recognition outcome: the model raised, or returned result["text"].
Raised == [raised |-> TRUE, text |-> <<>>]
Returned(t) == [raised |-> FALSE, text |-> t]

RecognizedTextUnstripped(outcome) == IF outcome.raised THEN <<>> ELSE outcome.text

\* _transcribe_audio after the executor call: the stripped text, <<>> when
\* the call raised or the text is empty (the method then returns None).
RecognizedText(outcome) == IF outcome.raised THEN <<>> ELSE Strip(outcome.text)

\* _transcribe_audio: the service after the call completed at time t
AfterTranscribe(s, outcome, t) ==
    IF RecognizedText(outcome) # <<>>
    THEN AddFragment(s, RecognizedText(outcome), t)
    ELSE s

HasRemainderAlways(s) == TRUE

\* finalize: `if self.audio_buffer and self.buffer_duration > 0`
HasRemainder(s) == s.audio_buffer # <<>> /\ s.buffer_duration # FloatZero

Texts(frags) == [i \in 1..Len(frags) |-> frags[i].text]

FullTextNoSep(s) == JoinNoSep(Texts(s.full_transcript))

\* finalize: " ".join([segment["text"] for segment in self.full_transcript])
FullText(s) == Join(Texts(s.full_transcript))

\* finalize: the returned dict
FinalizeResult(s, t) ==
    [ full_transcript |-> FullText(s),
      segments |-> s.full_transcript,
      duration |-> t - s.start_time,
      word_count |-> WordCount(FullText(s)) ]

\* ------------------------------------------------------------------ inputs
\* 1.2 s, 2.0 s and 7.0 s of PCM, a 7-byte payload, a payload that is not
\* base64, and a message without data.
AudioPayloads ==
    { Payload(TRUE, 38400), Payload(TRUE, 64000), Payload(TRUE, 224000),
      Payload(TRUE, 7), Payload(FALSE, 8), NoData }

\* One sample, three seconds, and a 7-byte payload: the inputs of the
\* service driven directly.
ServicePayloads == { Payload(TRUE, 2), Payload(TRUE, 96000), Payload(TRUE, 7) }

\* What the speech model gives: an exception, " ", "\va\nc" followed by
\* U+2003 (EM SPACE), or "b".
RecogOutcomes ==
    { Raised, Returned(<<SP>>), Returned(<<11, 97, 10, 99, 8195>>),
      Returned(<<98>>) }

Languages == {"en", "es"}

\* ------------------------------------------------------------------- state
VARIABLES
    pc,               \* where each connection handler stands
    svc,              \* handler local `transcription_service` (None or one)
    meeting_id,       \* handler local `meeting_id` (0 is None)
    active_sessions,  \* the module-level dict, session id -> entry
    meetings,         \* the meetings table, row id = index
    now,              \* the clock
    recog,            \* the latest recognition call of each session (None or one)
    lastOut,          \* what the handler sent during its latest step
    last_event,       \* the inbound event the latest step handled
    emitted,          \* history: the transcript messages sent, in order
    recog_calls,      \* history: model calls issued for the session
    frag_log,         \* history: recognitions of the service that gave text
    appended,         \* history: chunks appended since the service's last flush
    fin_results,      \* the dicts finalize() returned, in call order
    listing,          \* the latest response of GET /sessions (None or one)
    uploads,          \* the rows of uploaded meetings, row id = index
    task              \* process_meeting_task of each uploaded meeting

vars ==
    << pc, svc, meeting_id, active_sessions, meetings, now, recog, lastOut,
       last_event, emitted, recog_calls, frag_log, appended, fin_results,
       listing, uploads, task >>

\* what the live transcription handlers never touch
batch_vars == << listing, uploads, task >>

\* what the upload route and the batch task never touch
live_vars ==
    << pc, svc, meeting_id, active_sessions, meetings, now, recog, lastOut,
       last_event, emitted, recog_calls, frag_log, appended, fin_results,
       listing >>

Init ==
    /\ pc = [s \in Sessions |-> "idle"]
    /\ svc = [s \in Sessions |-> None]
    /\ meeting_id = [s \in Sessions |-> 0]
    /\ active_sessions = << >>
    /\ meetings = << >>
    /\ now = 0
    /\ recog = [s \in Sessions |-> None]
    /\ lastOut = [s \in Sessions |-> << >>]
    /\ last_event = [s \in Sessions |-> "none"]
    /\ emitted = [s \in Sessions |-> << >>]
    /\ recog_calls = [s \in Sessions |-> 0]
    /\ frag_log = [s \in Sessions |-> << >>]
    /\ appended = [s \in Sessions |-> << >>]
    /\ fin_results = [s \in Sessions |-> << >>]
    /\ listing = None
    /\ uploads = << >>
    /\ task = << >>

\* ------------------------------------------------------ registry and store
RegistryPutOnly(reg, s, entry) == [k \in {s} |-> entry]

\* active_sessions[session_id] = {...}
RegistryPut(reg, s, entry) ==
    [k \in (DOMAIN reg) \cup {s} |-> IF k = s THEN entry ELSE reg[k]]

RegistryKeep(reg, s) == reg

RegistryClear(reg, s) == << >>

\* if session_id in active_sessions: del active_sessions[session_id]
RegistryDel(reg, s) == [k \in (DOMAIN reg) \ {s} |-> reg[k]]

\* MeetingRepository.create inside a committed get_db() block
NewMeeting == [status |-> "processing", transcript |-> None, duration_seconds |-> None]

CompleteMeetingNothing(rows, mid, result) == rows

\* A row removed by DELETE /api/v1/meetings/{id}: ids are not reused, the
\* place of the row stays in the sequence.
DeletedMeeting == [status |-> "deleted", transcript |-> None, duration_seconds |-> None]

\* An id drawn from the table's sequence by an INSERT that was rolled back:
\* the sequence does not give the id back, no row ever has it.
UncommittedMeeting ==
    [status |-> "never_committed", transcript |-> None, duration_seconds |-> None]

\* MeetingRepository.get_by_id(...) is not None
RowExists(rows, mid) ==
    mid \in DOMAIN rows /\ rows[mid].status \notin {"deleted", "never_committed"}

DeletedCount(rows) ==
    Cardinality({i \in DOMAIN rows : rows[i].status = "deleted"})

\* the stop branch's get_db() block, committed: `if meeting:`
CompleteMeeting(rows, mid, result) ==
    IF RowExists(rows, mid)
    THEN [rows EXCEPT ![mid] = [ status |-> "completed",
                                 transcript |-> Some(result.full_transcript),
                                 duration_seconds |-> Some(result.duration) ]]
    ELSE rows

\* ------------------------------------------------------- outbound messages
MsgConnected == [type |-> "connected"]
MsgStarted(mid) == [type |-> "session_started", meeting_id |-> mid]
MsgTranscript(text, t) ==
    [type |-> "transcript", text |-> text, is_final |-> TRUE, timestamp |-> t]
MsgEnded(mid, result) ==
    [ type |-> "session_ended", meeting_id |-> mid,
      final_transcript |-> result.full_transcript,
      duration |-> result.duration,
      word_count |-> WordCount(result.full_transcript) ]
MsgPongAsError == [type |-> "error", message |-> "pong"]

MsgPong == [type |-> "pong"]
MsgError(why) == [type |-> "error", message |-> why]

\* ------------------------------------------------ the connection handler
\* `except Exception`: the handler is suspended in `await send_json(error)`;
\* the registry entry is still there until `finally` runs.
Abort(s, ev, why) ==
    /\ pc' = [pc EXCEPT ![s] = "error_send"]
    /\ lastOut' = [lastOut EXCEPT ![s] = <<MsgError(why)>>]
    /\ last_event' = [last_event EXCEPT ![s] = ev]
    /\ UNCHANGED active_sessions

\* the loop goes back to receive_text having sent `out`
Continue(s, ev, out) ==
    /\ pc' = [pc EXCEPT ![s] = "recv"]
    /\ lastOut' = [lastOut EXCEPT ![s] = out]
    /\ last_event' = [last_event EXCEPT ![s] = ev]

\* websocket.accept() and the welcome message
Connect(s) ==
    /\ pc[s] = "idle"
    /\ Continue(s, "connect", <<MsgConnected>>)
    /\ UNCHANGED << svc, meeting_id, active_sessions, meetings, now, recog,
                    emitted, recog_calls, frag_log, appended, fin_results >>
    /\ UNCHANGED batch_vars

\* How a start can go: all of it succeeds; get_db() or create() raises
\* before the INSERT has drawn an id; the INSERT draws an id and raises
\* before `meeting_id = meeting.id`; the commit on leaving the block raises
\* (the flushed id is already in the local, the row is rolled back); the
\* row is committed and LiveTranscriptionService() raises (load_model).
\* The ids are those of the table's sequence: one drawn is never drawn
\* again, whether its row was committed or not.
StartOutcomes == {"ok", "db_create", "db_flush", "db_commit", "load"}

\* {"type": "start"}: no test of the current state precedes the branch
RecvStart(s, lang, outcome) ==
    /\ pc[s] = "recv"
    /\ Len(meetings) < MaxMeetings
    /\ IF outcome = "db_create"
       THEN /\ Abort(s, "start", "db")
            /\ UNCHANGED << svc, meeting_id, meetings, frag_log, appended >>
       ELSE IF outcome = "db_flush"
       THEN /\ Abort(s, "start", "db")
            /\ meetings' = Append(meetings, UncommittedMeeting)
            /\ UNCHANGED << svc, meeting_id, frag_log, appended >>
       ELSE IF outcome = "db_commit"
       THEN /\ Abort(s, "start", "db")
            /\ meetings' = Append(meetings, UncommittedMeeting)
            /\ meeting_id' = [meeting_id EXCEPT ![s] = Len(meetings) + 1]
            /\ UNCHANGED << svc, frag_log, appended >>
       ELSE IF outcome = "load"
       THEN /\ Abort(s, "start", "load")
            /\ meetings' = Append(meetings, NewMeeting)
            /\ meeting_id' = [meeting_id EXCEPT ![s] = Len(meetings) + 1]
            /\ UNCHANGED << svc, frag_log, appended >>
       ELSE /\ meetings' = Append(meetings, NewMeeting)
            /\ meeting_id' = [meeting_id EXCEPT ![s] = Len(meetings) + 1]
            /\ svc' = [svc EXCEPT ![s] =
                          Some(NewService(lang, Len(meetings) + 1, now))]
            /\ active_sessions' =
                   RegistryPut(active_sessions, s,
                               [meeting_id |-> Len(meetings) + 1, start_time |-> now])
            /\ frag_log' = [frag_log EXCEPT ![s] = << >>]
            /\ appended' = [appended EXCEPT ![s] = << >>]
            /\ Continue(s, "start", <<MsgStarted(Len(meetings) + 1)>>)
    /\ UNCHANGED << now, recog, emitted, recog_calls, fin_results >>
    /\ UNCHANGED batch_vars

\* process_audio_chunk reaches `await self._transcribe_audio(audio_full)`:
\* the call handed to the executor, numbered in issue order
IssueRecognition(s, service) ==
    /\ recog' = [recog EXCEPT ![s] =
                    Some([ block |-> Concat(service.audio_buffer),
                           flush |-> recog_calls[s] + 1,
                           done |-> FALSE, raised |-> FALSE, text |-> << >> ])]
    /\ recog_calls' = [recog_calls EXCEPT ![s] = @ + 1]

\* the executor call returns or raises: _transcribe_audio resumes
CompleteRecognition(s, outcome) ==
    recog' = [recog EXCEPT ![s] =
        Some([Get(@) EXCEPT !.done = TRUE, !.raised = outcome.raised,
                            !.text = RecognizedText(outcome)])]

\* history of the recognitions that produced a fragment
LogFragment(s, outcome, t) ==
    frag_log' = [frag_log EXCEPT ![s] =
        IF RecognizedText(outcome) # <<>>
        THEN Append(@, [ flush |-> Get(recog[s]).flush,
                         text |-> RecognizedText(outcome), at |-> t ])
        ELSE @]

NotStartedReplyNothing == << >>

\* `if not transcription_service:` the reply to an audio message, `continue`
NotStartedReply == <<MsgError("not started")>>

\* {"type": "audio"} up to the first suspension of process_audio_chunk
RecvAudio(s, p) ==
    /\ pc[s] = "recv"
    /\ IF IsNone(svc[s])
       THEN /\ Continue(s, "audio", NotStartedReply)
            /\ UNCHANGED << svc, recog, recog_calls, appended >>
       ELSE IF ~p.present
       THEN /\ Continue(s, "audio", << >>)
            /\ UNCHANGED << svc, recog, recog_calls, appended >>
       ELSE IF DecodeSamples(p) < 0   \* `except Exception`: logged, None
       THEN /\ Continue(s, "audio_dropped", << >>)
            /\ UNCHANGED << svc, recog, recog_calls, appended >>
       ELSE \E b \in {BufferChunk(Get(svc[s]), DecodeSamples(p))} :
            /\ svc' = [svc EXCEPT ![s] = Some(b)]
            /\ appended' = [appended EXCEPT ![s] = Append(@, DecodeSamples(p))]
            /\ IF ShouldFlush(b)
               THEN /\ IssueRecognition(s, b)
                    /\ pc' = [pc EXCEPT ![s] = "audio_await"]
                    /\ lastOut' = [lastOut EXCEPT ![s] = << >>]
                    /\ last_event' = [last_event EXCEPT ![s] = "audio"]
               ELSE /\ Continue(s, "audio", << >>)
                    /\ UNCHANGED << recog, recog_calls >>
    /\ UNCHANGED << meeting_id, active_sessions, meetings, now, emitted,
                    frag_log, fin_results >>
    /\ UNCHANGED batch_vars

\* the executor call of a threshold flush completes: _transcribe_audio
\* returns, the buffer is cleared, the handler sends the transcript if any
RecogDone(s, outcome) ==
    /\ pc[s] = "audio_await"
    /\ now < MaxTime
    /\ LET t == now + 1
           text == RecognizedText(outcome)
       IN /\ now' = t
          /\ svc' = [svc EXCEPT ![s] =
                        Some(ClearBuffer(AfterTranscribe(Get(svc[s]), outcome, t)))]
          /\ LogFragment(s, outcome, t)
          /\ emitted' = [emitted EXCEPT ![s] =
                 IF text # <<>>
                 THEN Append(@, [text |-> text, flush |-> Get(recog[s]).flush])
                 ELSE @]
          /\ Continue(s, "audio",
                 IF text # <<>> THEN <<MsgTranscript(text, t)>> ELSE << >>)
    /\ CompleteRecognition(s, outcome)
    /\ appended' = [appended EXCEPT ![s] = << >>]
    /\ UNCHANGED << meeting_id, active_sessions, meetings, recog_calls,
                    fin_results >>
    /\ UNCHANGED batch_vars

\* finalize() returns the list object itself under "segments": what the
\* earlier results of the same service show follows every later append
ShareSegments(results, list) ==
    [i \in DOMAIN results |-> [results[i] EXCEPT !.segments = list]]

\* the stop branch after finalize() returned `result` at time t: the
\* get_db() block, the registry cleanup, session_ended, break, finally
FinishStop(s, result, dbok) ==
    /\ fin_results' = [fin_results EXCEPT ![s] =
                          Append(ShareSegments(@, result.segments), result)]
    /\ IF dbok
       THEN /\ meetings' = CompleteMeeting(meetings, meeting_id[s], result)
            /\ active_sessions' = RegistryDel(active_sessions, s)
            /\ pc' = [pc EXCEPT ![s] = "done"]
            /\ lastOut' = [lastOut EXCEPT ![s] = <<MsgEnded(meeting_id[s], result)>>]
            /\ last_event' = [last_event EXCEPT ![s] = "stop"]
       ELSE /\ Abort(s, "stop", "db")
            /\ UNCHANGED meetings

\* {"type": "stop"} up to the first suspension of finalize()
RecvStop(s, dbok) ==
    /\ pc[s] = "recv"
    /\ IF IsNone(svc[s])
       THEN /\ Continue(s, "stop", << >>)
            /\ UNCHANGED << active_sessions, meetings, recog, recog_calls,
                            fin_results >>
       ELSE IF HasRemainder(Get(svc[s]))
       THEN /\ IssueRecognition(s, Get(svc[s]))
            /\ pc' = [pc EXCEPT ![s] = "final_await"]
            /\ lastOut' = [lastOut EXCEPT ![s] = << >>]
            /\ last_event' = [last_event EXCEPT ![s] = "stop"]
            /\ UNCHANGED << active_sessions, meetings, fin_results >>
       ELSE /\ FinishStop(s, FinalizeResult(Get(svc[s]), now), dbok)
            /\ UNCHANGED << recog, recog_calls >>
    /\ UNCHANGED << svc, meeting_id, now, emitted, frag_log, appended >>
    /\ UNCHANGED batch_vars

\* the executor call of finalize() completes; the rest of the stop branch
FinalDone(s, outcome, dbok) ==
    /\ pc[s] = "final_await"
    /\ now < MaxTime
    /\ LET t == now + 1
           after == AfterTranscribe(Get(svc[s]), outcome, t)
       IN /\ now' = t
          /\ svc' = [svc EXCEPT ![s] = Some(after)]
          /\ LogFragment(s, outcome, t)
          /\ FinishStop(s, FinalizeResult(after, t), dbok)
    /\ CompleteRecognition(s, outcome)
    /\ UNCHANGED << meeting_id, emitted, recog_calls, appended >>
    /\ UNCHANGED batch_vars

\* {"type": "ping"}
RecvPing(s) ==
    /\ pc[s] = "recv"
    /\ Continue(s, "ping", <<MsgPong>>)
    /\ UNCHANGED << svc, meeting_id, active_sessions, meetings, now, recog,
                    emitted, recog_calls, frag_log, appended, fin_results >>
    /\ UNCHANGED batch_vars

\* a JSON object whose "type" is missing or none of the above
RecvUnknown(s) ==
    /\ pc[s] = "recv"
    /\ Continue(s, "unknown", <<MsgError("unknown type")>>)
    /\ UNCHANGED << svc, meeting_id, active_sessions, meetings, now, recog,
                    emitted, recog_calls, frag_log, appended, fin_results >>
    /\ UNCHANGED batch_vars

\* text that json.loads rejects, or JSON that is no object (data.get raises):
\* the exception leaves the loop
RecvMalformed(s) ==
    /\ pc[s] = "recv"
    /\ Abort(s, "malformed", "exception")
    /\ UNCHANGED << svc, meeting_id, meetings, now, recog, emitted,
                    recog_calls, frag_log, appended, fin_results >>
    /\ UNCHANGED batch_vars

\* the error message is sent, or lost, and `finally` removes the entry
Finally(s) ==
    /\ pc[s] = "error_send"
    /\ pc' = [pc EXCEPT ![s] = "done"]
    /\ active_sessions' = RegistryDel(active_sessions, s)
    /\ UNCHANGED << svc, meeting_id, meetings, now, recog, lastOut, last_event,
                    emitted, recog_calls, frag_log, appended, fin_results >>
    /\ UNCHANGED batch_vars

\* receive_text raises WebSocketDisconnect: logged, then finally
Disconnect(s) ==
    /\ pc[s] = "recv"
    /\ pc' = [pc EXCEPT ![s] = "done"]
    /\ lastOut' = [lastOut EXCEPT ![s] = << >>]
    /\ last_event' = [last_event EXCEPT ![s] = "disconnect"]
    /\ active_sessions' = RegistryDel(active_sessions, s)
    /\ UNCHANGED << svc, meeting_id, meetings, now, recog, emitted,
                    recog_calls, frag_log, appended, fin_results >>
    /\ UNCHANGED batch_vars

\* DELETE /api/v1/meetings/{id}: MeetingRepository.delete, db.commit()
DeleteMeeting(mid) ==
    /\ RowExists(meetings, mid)
    /\ DeletedCount(meetings) < MaxDeletes
    /\ meetings' = [meetings EXCEPT ![mid] = DeletedMeeting]
    /\ UNCHANGED << pc, svc, meeting_id, active_sessions, now, recog, lastOut,
                    last_event, emitted, recog_calls, frag_log, appended,
                    fin_results >>
    /\ UNCHANGED batch_vars

\* time passes
Tick ==
    /\ now < MaxTime
    /\ now' = now + 1
    /\ UNCHANGED << pc, svc, meeting_id, active_sessions, meetings, recog,
                    lastOut, last_event, emitted, recog_calls, frag_log,
                    appended, fin_results >>
    /\ UNCHANGED batch_vars

Next ==
    \/ \E s \in Solo : Connect(s)
    \/ \E s \in Solo, l \in Languages, o \in StartOutcomes : RecvStart(s, l, o)
    \/ \E s \in Solo, p \in AudioPayloads : RecvAudio(s, p)
    \/ \E s \in Solo, o \in RecogOutcomes : RecogDone(s, o)
    \/ \E s \in Solo, ok \in BOOLEAN : RecvStop(s, ok)
    \/ \E s \in Solo, o \in RecogOutcomes, ok \in BOOLEAN : FinalDone(s, o, ok)
    \/ \E s \in Solo : RecvPing(s)
    \/ \E s \in Solo : RecvUnknown(s)
    \/ \E s \in Solo : RecvMalformed(s)
    \/ \E s \in Solo : Finally(s)
    \/ \E s \in Solo : Disconnect(s)
    \/ Tick

Spec == Init /\ [][Next]_vars

\* ------------------------------------------------- two connections at once
\* Two handlers of the same process interleave at their suspension points:
\* one language, 2.0 s chunks, a recognition that raises or gives "b".
PairPayloads == { Payload(TRUE, 64000) }

PairOutcomes == { Raised, Returned(<<98>>) }

SessionsResponseEveryone(reg, t) ==
    [ active_sessions |-> Cardinality(Sessions),
      sessions |-> { [ session_id |-> k, meeting_id |-> meeting_id[k],
                       start_time |-> 0, duration |-> t ] : k \in Sessions } ]

\* get_active_sessions: one item per entry of the dict (the entry's
\* "service" is not read), and their count
SessionsResponse(reg, t) ==
    [ active_sessions |-> Cardinality(DOMAIN reg),
      sessions |-> { [ session_id |-> k,
                       meeting_id |-> reg[k].meeting_id,
                       start_time |-> reg[k].start_time,
                       duration |-> t - reg[k].start_time ] : k \in DOMAIN reg } ]

\* GET /sessions: a coroutine without a suspension point
GetActiveSessions ==
    /\ listing' = Some(SessionsResponse(active_sessions, now))
    /\ UNCHANGED << pc, svc, meeting_id, active_sessions, meetings, now, recog,
                    lastOut, last_event, emitted, recog_calls, frag_log,
                    appended, fin_results, uploads, task >>

NextPair ==
    \/ \E s \in Sessions : Connect(s)
    \/ \E s \in Sessions, o \in StartOutcomes : RecvStart(s, "en", o)
    \/ \E s \in Sessions, p \in PairPayloads : RecvAudio(s, p)
    \/ \E s \in Sessions, o \in PairOutcomes : RecogDone(s, o)
    \/ \E s \in Sessions, ok \in BOOLEAN : RecvStop(s, ok)
    \/ \E s \in Sessions, o \in PairOutcomes, ok \in BOOLEAN : FinalDone(s, o, ok)
    \/ \E s \in Sessions : RecvMalformed(s)
    \/ \E s \in Sessions : Finally(s)
    \/ \E s \in Sessions : Disconnect(s)

SpecPair == Init /\ [][NextPair]_vars

\* One connection and the meetings API: a row can be deleted by
\* DELETE /meetings/{id} at any moment of the session that created it.
NextStore ==
    \/ \E s \in Solo : Connect(s)
    \/ \E s \in Solo, o \in StartOutcomes : RecvStart(s, "en", o)
    \/ \E s \in Solo, p \in PairPayloads : RecvAudio(s, p)
    \/ \E s \in Solo, o \in PairOutcomes : RecogDone(s, o)
    \/ \E s \in Solo, ok \in BOOLEAN : RecvStop(s, ok)
    \/ \E s \in Solo, o \in PairOutcomes, ok \in BOOLEAN : FinalDone(s, o, ok)
    \/ \E s \in Solo : Finally(s)
    \/ \E s \in Solo : Disconnect(s)
    \/ \E mid \in 1..MaxMeetings : DeleteMeeting(mid)
    \/ Tick

SpecStore == Init /\ [][NextStore]_vars

\* GET /sessions called at any moment while two connections start, record,
\* stop, fail on a malformed frame and disconnect (database and recognition
\* always succeeding).
NextListing ==
    \/ \E s \in Sessions : Connect(s)
    \/ \E s \in Sessions : RecvStart(s, "en", "ok")
    \/ \E s \in Sessions, p \in PairPayloads : RecvAudio(s, p)
    \/ \E s \in Sessions : RecogDone(s, Returned(<<98>>))
    \/ \E s \in Sessions : RecvStop(s, TRUE)
    \/ \E s \in Sessions : FinalDone(s, Returned(<<98>>), TRUE)
    \/ \E s \in Sessions : RecvMalformed(s)
    \/ \E s \in Sessions : Finally(s)
    \/ \E s \in Sessions : Disconnect(s)
    \/ GetActiveSessions

SpecListing == Init /\ [][NextListing]_vars

\* ------------------------------------------ uploads and the batch task
\* POST /upload creates the row and queues process_meeting_task; a Celery
\* worker runs the task, one attempt at a time per meeting.  Every database
\* block, the pipeline and the bookkeeping after the save can raise.

\* countdown=60 * (2 ** self.request.retries)
RetryCountdown(retries) == RetryBaseSeconds * Pow2(retries)

\* the number of action items one run of the pipeline extracts
ItemCounts == {0, 1}

NewUpload == [status |-> "uploading", saved |-> FALSE, items |-> 0]

NewTask == [at |-> "route", retries |-> 0, countdown |-> 0, ret |-> "none"]

\* upload.py: MeetingRepository.create(...status UPLOADING...); db.commit()
UploadCreate ==
    /\ Len(uploads) < MaxUploads
    /\ uploads' = Append(uploads, NewUpload)
    /\ task' = Append(task, NewTask)
    /\ UNCHANGED live_vars

\* A row removed by DELETE /api/v1/meetings/{id}, its action items with it
\* (cascade)
DeletedUpload == [status |-> "deleted", saved |-> FALSE, items |-> 0]

\* upload.py:121-122: meeting.status = PROCESSING; db.commit().  The commit
\* can raise, and it raises on a row deleted since the first commit; the
\* exception is answered with HTTP 500 and nothing is published.
UploadCommit(m, dbok) ==
    /\ m \in DOMAIN task /\ task[m].at = "route"
    /\ IF dbok /\ RowExists(uploads, m)
       THEN /\ uploads' = [uploads EXCEPT ![m].status = "processing"]
            /\ task' = [task EXCEPT ![m].at = "committed"]
       ELSE /\ task' = [task EXCEPT ![m].at = "rejected"]
            /\ UNCHANGED uploads
    /\ UNCHANGED live_vars

\* upload.py:125-127: process_meeting_task.delay(meeting.id), after the
\* commit.  When the broker is unreachable delay() raises: HTTP 500, the
\* row stays as committed and no task is queued for it.
UploadPublish(m, brokerok) ==
    /\ m \in DOMAIN task /\ task[m].at = "committed"
    /\ task' = [task EXCEPT ![m].at = IF brokerok THEN "queued" ELSE "rejected"]
    /\ UNCHANGED << uploads, live_vars >>

\* process_meeting_task, step 1: the first get_db() block.  The row is read
\* before anything is decided, and both returns leave the block through its
\* commit, so a failing database ends in the except branch whatever the row.
TaskBegin(m, dbok) ==
    /\ m \in DOMAIN task /\ task[m].at = "queued"
    /\ IF ~dbok
       THEN /\ task' = [task EXCEPT ![m].at = "failing"]
            /\ UNCHANGED uploads
       ELSE IF ~RowExists(uploads, m)
       THEN /\ task' = [task EXCEPT ![m].at = "returned", ![m].ret = "error"]
            /\ UNCHANGED uploads
       ELSE IF uploads[m].status = "completed"
       THEN /\ task' = [task EXCEPT ![m].at = "returned",
                                     ![m].ret = "already_processed"]
            /\ UNCHANGED uploads
       ELSE /\ uploads' = [uploads EXCEPT ![m].status = "processing"]
            /\ task' = [task EXCEPT ![m].at = "running"]
    /\ UNCHANGED live_vars

\* steps 2 and 3 (processing.py:75-98): the read of meeting.audio_file_path
\* on the instance of the closed session, the download, the temporary file
\* and orchestrator.process_meeting_full; any of them can raise (~ok)
TaskPipeline(m, ok) ==
    /\ m \in DOMAIN task /\ task[m].at = "running"
    /\ task' = [task EXCEPT ![m].at = IF ok THEN "saving" ELSE "failing"]
    /\ UNCHANGED << uploads, live_vars >>

\* step 4: the second get_db() block, one transaction: results, status
\* COMPLETED and the n action items, committed or rolled back together; on
\* a deleted row get_by_id gives None and the first assignment raises
TaskSave(m, n, dbok) ==
    /\ m \in DOMAIN task /\ task[m].at = "saving"
    /\ IF dbok /\ RowExists(uploads, m)
       THEN /\ uploads' = [uploads EXCEPT ![m].status = "completed",
                                           ![m].saved = TRUE,
                                           ![m].items = @ + n]
            /\ task' = [task EXCEPT ![m].at = "cleanup"]
       ELSE /\ task' = [task EXCEPT ![m].at = "failing"]
            /\ UNCHANGED uploads
    /\ UNCHANGED live_vars

\* step 5 to the return: unlink, metrics, the result summary
TaskCleanup(m, ok) ==
    /\ m \in DOMAIN task /\ task[m].at = "cleanup"
    /\ task' = [task EXCEPT ![m].at = IF ok THEN "returned" ELSE "failing",
                            ![m].ret = IF ok THEN "success" ELSE @]
    /\ UNCHANGED << uploads, live_vars >>

\* `except Exception`: status FAILED in its own get_db() block (`if
\* meeting:`), whose failure is swallowed by `except: pass`
MarkFailed(rows, m, dbok) ==
    IF dbok /\ RowExists(rows, m)
    THEN [rows EXCEPT ![m].status = "failed"]
    ELSE rows

\* processing.py:200-212: the except branch up to the retry.  The get_db()
\* block commits FAILED on leaving the `with`; whether it did or raised, the
\* attempt goes on to self.retry
TaskMarkFailed(m, dbok) ==
    /\ m \in DOMAIN task /\ task[m].at = "failing"
    /\ uploads' = MarkFailed(uploads, m, dbok)
    /\ task' = [task EXCEPT ![m].at = "retrying"]
    /\ UNCHANGED live_vars

\* processing.py:215: raise self.retry(exc=e, countdown=..., max_retries=3).
\* Past the last retry the exception is raised for good; otherwise the task
\* is published again with retries + 1, and when that publish fails (the
\* broker is unreachable) the attempt is rejected and nothing is queued.
TaskRetry(m, brokerok) ==
    /\ m \in DOMAIN task /\ task[m].at = "retrying"
    /\ IF task[m].retries >= MaxRetries
       THEN task' = [task EXCEPT ![m].at = "returned", ![m].ret = "raised"]
       ELSE IF brokerok
       THEN task' = [task EXCEPT ![m].at = "queued",
                                 ![m].countdown = RetryCountdown(task[m].retries),
                                 ![m].retries = @ + 1]
       ELSE task' = [task EXCEPT ![m].at = "returned", ![m].ret = "rejected"]
    /\ UNCHANGED << uploads, live_vars >>

\* DELETE /api/v1/meetings/{id} on an uploaded meeting
DeleteUpload(m) ==
    /\ RowExists(uploads, m)
    /\ DeletedCount(uploads) < MaxDeletes
    /\ uploads' = [uploads EXCEPT ![m] = DeletedUpload]
    /\ UNCHANGED << task, live_vars >>

NextBatch ==
    \/ UploadCreate
    \/ \E m \in 1..MaxUploads, ok \in BOOLEAN : UploadCommit(m, ok)
    \/ \E m \in 1..MaxUploads, ok \in BOOLEAN : UploadPublish(m, ok)
    \/ \E m \in 1..MaxUploads, ok \in BOOLEAN : TaskBegin(m, ok)
    \/ \E m \in 1..MaxUploads, ok \in BOOLEAN : TaskPipeline(m, ok)
    \/ \E m \in 1..MaxUploads, n \in ItemCounts, ok \in BOOLEAN : TaskSave(m, n, ok)
    \/ \E m \in 1..MaxUploads, ok \in BOOLEAN : TaskCleanup(m, ok)
    \/ \E m \in 1..MaxUploads, ok \in BOOLEAN : TaskMarkFailed(m, ok)
    \/ \E m \in 1..MaxUploads, ok \in BOOLEAN : TaskRetry(m, ok)
    \/ \E m \in 1..MaxUploads : DeleteUpload(m)

SpecBatch == Init /\ [][NextBatch]_vars

\* ------------------------------------------- the service driven directly
\* A LiveTranscriptionService right after construction, its methods called
\* one at a time by a caller that awaits each call.
InitService ==
    /\ pc = [s \in Sessions |-> IF s \in Solo THEN "svc_ready" ELSE "idle"]
    /\ svc = [s \in Sessions |->
                 IF s \in Solo THEN Some(NewService("en", 0, 0)) ELSE None]
    /\ meeting_id = [s \in Sessions |-> 0]
    /\ active_sessions = << >>
    /\ meetings = << >>
    /\ now = 0
    /\ recog = [s \in Sessions |-> None]
    /\ lastOut = [s \in Sessions |-> << >>]
    /\ last_event = [s \in Sessions |-> "none"]
    /\ emitted = [s \in Sessions |-> << >>]
    /\ recog_calls = [s \in Sessions |-> 0]
    /\ frag_log = [s \in Sessions |-> << >>]
    /\ appended = [s \in Sessions |-> << >>]
    /\ fin_results = [s \in Sessions |-> << >>]
    /\ listing = None
    /\ uploads = << >>
    /\ task = << >>

\* the running duration up to which chunks are fed without a flush
TinyLimit == FloatOfSamples(MaxTinySamples)

\* process_audio_chunk(payload) up to its first suspension; once finalize()
\* has returned it is driven while the buffer holds fewer than
\* MaxLateChunks chunks
CallProcess(s, p) ==
    /\ pc[s] = "svc_ready"
    /\ fin_results[s] # << >> => Len(Get(svc[s]).audio_buffer) < MaxLateChunks
    /\ ~FloatGeq(Get(svc[s]).buffer_duration, TinyLimit)
    /\ IF DecodeSamples(p) < 0
       THEN UNCHANGED << pc, svc, recog, recog_calls, appended >>
       ELSE \E b \in {BufferChunk(Get(svc[s]), DecodeSamples(p))} :
            /\ svc' = [svc EXCEPT ![s] = Some(b)]
            /\ appended' = [appended EXCEPT ![s] = Append(@, DecodeSamples(p))]
            /\ IF ShouldFlush(b)
               THEN /\ IssueRecognition(s, b)
                    /\ pc' = [pc EXCEPT ![s] = "svc_audio_await"]
               ELSE UNCHANGED << pc, recog, recog_calls >>
    /\ last_event' = [last_event EXCEPT ![s] = "process_audio_chunk"]
    /\ UNCHANGED << meeting_id, active_sessions, meetings, now, lastOut,
                    emitted, frag_log, fin_results >>
    /\ UNCHANGED batch_vars

\* the executor call completes and process_audio_chunk returns
CallProcessDone(s, outcome) ==
    /\ pc[s] = "svc_audio_await"
    /\ now < MaxTime
    /\ now' = now + 1
    /\ LET after == AfterTranscribe(Get(svc[s]), outcome, now + 1) IN
          /\ svc' = [svc EXCEPT ![s] = Some(ClearBuffer(after))]
          /\ fin_results' = [fin_results EXCEPT ![s] =
                                ShareSegments(@, after.full_transcript)]
    /\ LogFragment(s, outcome, now + 1)
    /\ pc' = [pc EXCEPT ![s] = "svc_ready"]
    /\ CompleteRecognition(s, outcome)
    /\ appended' = [appended EXCEPT ![s] = << >>]
    /\ UNCHANGED << meeting_id, active_sessions, meetings, lastOut, last_event,
                    emitted, recog_calls >>
    /\ UNCHANGED batch_vars

\* finalize() up to its first suspension, or to its return
CallFinalize(s) ==
    /\ pc[s] = "svc_ready"
    /\ Len(fin_results[s]) < MaxFinalize
    /\ IF HasRemainder(Get(svc[s]))
       THEN /\ IssueRecognition(s, Get(svc[s]))
            /\ pc' = [pc EXCEPT ![s] = "svc_final_await"]
            /\ UNCHANGED fin_results
       ELSE /\ fin_results' = [fin_results EXCEPT ![s] =
                                  Append(@, FinalizeResult(Get(svc[s]), now))]
            /\ UNCHANGED << pc, recog, recog_calls >>
    /\ last_event' = [last_event EXCEPT ![s] = "finalize"]
    /\ UNCHANGED << svc, meeting_id, active_sessions, meetings, now, lastOut,
                    emitted, frag_log, appended >>
    /\ UNCHANGED batch_vars

\* the executor call completes and finalize() returns
CallFinalizeDone(s, outcome) ==
    /\ pc[s] = "svc_final_await"
    /\ now < MaxTime
    /\ now' = now + 1
    /\ LET after == AfterTranscribe(Get(svc[s]), outcome, now + 1) IN
          /\ svc' = [svc EXCEPT ![s] = Some(after)]
          /\ fin_results' = [fin_results EXCEPT ![s] =
                                Append(ShareSegments(@, after.full_transcript),
                                       FinalizeResult(after, now + 1))]
    /\ LogFragment(s, outcome, now + 1)
    /\ pc' = [pc EXCEPT ![s] = "svc_ready"]
    /\ CompleteRecognition(s, outcome)
    /\ UNCHANGED << meeting_id, active_sessions, meetings, lastOut, last_event,
                    emitted, recog_calls, appended >>
    /\ UNCHANGED batch_vars

NextService ==
    \/ \E s \in Solo, p \in ServicePayloads : CallProcess(s, p)
    \/ \E s \in Solo, o \in RecogOutcomes : CallProcessDone(s, o)
    \/ \E s \in Solo : CallFinalize(s)
    \/ \E s \in Solo, o \in RecogOutcomes : CallFinalizeDone(s, o)

SpecService == InitService /\ [][NextService]_vars

\* ================================================================== claims
Started(s) == ~IsNone(svc[s])
Service(s) == Get(svc[s])
Sent(s, type) == \E i \in 1..Len(lastOut[s]) : lastOut[s][i].type = type

RECURSIVE SumSeq(_)
SumSeq(q) == IF q = <<>> THEN 0 ELSE Head(q) + SumSeq(Tail(q))

\* C1: a `start` received by a session that has already started is answered
\* with an error and changes nothing: the service (buffer, running duration,
\* fragments, start time, language), the handler's meeting id, the registry
\* and the meetings table are the same after the step as before it.
C1_StartOnStartedRejected ==
    [][\A s \in Sessions :
          (Started(s) /\ \E l \in Languages, o \in StartOutcomes : RecvStart(s, l, o))
          => /\ Sent(s, "error")'
             /\ svc'[s] = svc[s]
             /\ meeting_id'[s] = meeting_id[s]
             /\ meetings' = meetings]_vars

\* C2: when the transport disconnects on a started session, the handler has
\* run finalize() by the time it is over: audio left in the buffer was handed
\* to recognition, and the transcript finalize() returned is in the meeting
\* row, which is no longer in `processing`.
C2_DisconnectFinalizes ==
    \A s \in Sessions :
        (pc[s] = "done" /\ last_event[s] = "disconnect" /\ Started(s))
        => /\ fin_results[s] # << >>
           /\ meetings[meeting_id[s]].status # "processing"
           /\ meetings[meeting_id[s]].transcript
                  = Some(fin_results[s][1].full_transcript)
           /\ HasRemainder(Service(s))
                 => /\ ~IsNone(recog[s])
                    /\ Get(recog[s]).block = Service(s).audio_buffer

\* C3: while the recognition of a flushed block is still running, the
\* session's handler can take the next `audio` event.
C3_IngestWhileRecognizing ==
    \A s \in Sessions :
        pc[s] = "audio_await"
        => ENABLED (\E p \in AudioPayloads : RecvAudio(s, p))

\* C4: the fragments of a service are its recognitions that gave text, in
\* the order the flushes were issued, with increasing offsets; transcript
\* messages are sent in flush order as well.
C4_FragmentsInFlushOrder ==
    \A s \in Sessions :
        /\ \A i, j \in 1..Len(emitted[s]) :
               i < j => emitted[s][i].flush < emitted[s][j].flush
        /\ Started(s) =>
              LET ft == Service(s).full_transcript IN
              /\ Len(ft) = Len(frag_log[s])
              /\ \A i \in 1..Len(ft) :
                     /\ ft[i].text = frag_log[s][i].text
                     /\ ft[i].timestamp = frag_log[s][i].at
              /\ \A i, j \in 1..Len(ft) :
                     i < j => /\ frag_log[s][i].flush < frag_log[s][j].flush
                              /\ ft[i].offset < ft[j].offset

\* C4 witness: a service holding two fragments, both sent as transcripts.
C4_Witness ==
    \E s \in Sessions :
        /\ Started(s)
        /\ Len(Service(s).full_transcript) >= 2
        /\ Len(emitted[s]) >= 2
        /\ Service(s).full_transcript[1].text # Service(s).full_transcript[2].text

\* The float d is the duration of n samples up to the rounding of the
\* additions: it is closer to n / 16000 than half a sample.
NearSamples(d, n) ==
    IF n = 0 THEN d = FloatZero
    ELSE /\ FloatGt(FloatAdd(d, d), FloatOfSamples(2 * n - 1))
         /\ FloatGt(FloatOfSamples(2 * n + 1), FloatAdd(d, d))

\* C5: the running duration equals the sum of the durations of the chunks
\* the buffer holds.
C5_DurationIsSumOfHeld ==
    \A s \in Sessions :
        Started(s) =>
            NearSamples(Service(s).buffer_duration,
                        SumSeq(Service(s).audio_buffer))

\* C6: a block handed to recognition is exactly the chunks appended since
\* the previous flush, in arrival order; once a threshold flush is over the
\* buffer is empty and the running duration zero.
C6_BlockIsAppendedChunks ==
    \A s \in Sessions :
        /\ (~IsNone(recog[s]) /\ ~Get(recog[s]).done)
               => Get(recog[s]).block = appended[s]
        /\ (Started(s) /\ appended[s] = << >> /\ pc[s] \in {"recv", "svc_ready"})
               => /\ Service(s).audio_buffer = << >>
                  /\ Service(s).buffer_duration = FloatZero

\* C7: a second finalize() returns the first call's transcript and fragment
\* list, issues no recognition and appends no fragment.
C7_SecondFinalizeSame ==
    \A s \in Sessions :
        Len(fin_results[s]) >= 1
        => /\ pc[s] # "svc_final_await"
           /\ Service(s).full_transcript = fin_results[s][1].segments
           /\ \A i \in 1..Len(fin_results[s]) :
                  /\ fin_results[s][i].full_transcript = fin_results[s][1].full_transcript
                  /\ fin_results[s][i].segments = fin_results[s][1].segments

\* `out` is the texts in order with exactly one space between neighbours
SpaceJoined(texts, out) ==
    LET At[i \in 1..Len(texts)] ==
            IF i = 1 THEN 1 ELSE At[i - 1] + Len(texts[i - 1]) + 1
    IN IF texts = << >> THEN out = << >>
       ELSE /\ Len(out) = At[Len(texts)] + Len(texts[Len(texts)]) - 1
            /\ \A i \in 1..Len(texts) :
                   SubSeq(out, At[i], At[i] + Len(texts[i]) - 1) = texts[i]
            /\ \A i \in 1..(Len(texts) - 1) : out[At[i] + Len(texts[i])] = SP

\* C8: session_ended carries the single-space join of the texts of all the
\* service's fragments in order; audio left in the buffer at `stop` was
\* recognized first, and the text it gave is the last fragment.
C8_FinalTranscriptIsJoin ==
    \A s \in Sessions :
        (pc[s] = "done" /\ Sent(s, "session_ended"))
        => LET ft == Service(s).full_transcript IN
           /\ SpaceJoined(Texts(ft), lastOut[s][1].final_transcript)
           /\ HasRemainder(Service(s))
                 => /\ ~IsNone(recog[s])
                    /\ Get(recog[s]).done
                    /\ Get(recog[s]).flush = recog_calls[s]
                    /\ Get(recog[s]).block = Service(s).audio_buffer
                    /\ Get(recog[s]).text # << >>
                          => /\ ft # << >>
                             /\ ft[Len(ft)].text = Get(recog[s]).text

\* C8 witness: a session ended by `stop` with two fragments, the second one
\* recognized from the audio left in the buffer.
C8_Witness ==
    \E s \in Sessions :
        /\ pc[s] = "done"
        /\ Sent(s, "session_ended")
        /\ Len(Service(s).full_transcript) = 2
        /\ HasRemainder(Service(s))
        /\ Get(recog[s]).text # << >>
        /\ Len(emitted[s]) = 1

\* C9: when the handler has finished a `stop` on a started session, the
\* client has received session_ended with the transcript finalize() returned,
\* also when the meeting-store update failed.
C9_StopAlwaysEndsSession ==
    \A s \in Sessions :
        (pc[s] = "done" /\ last_event[s] = "stop" /\ fin_results[s] # << >>)
        => /\ Sent(s, "session_ended")
           /\ lastOut[s][1].final_transcript = fin_results[s][1].full_transcript

\* C10: a malformed inbound message is answered with an error, the handler
\* stays in its receive loop and the session (service, registry entry) is
\* unchanged.
C10_MalformedKeepsSession ==
    [][\A s \in Sessions :
          RecvMalformed(s)
          => /\ Sent(s, "error")'
             /\ pc'[s] = "recv"
             /\ svc'[s] = svc[s]
             /\ active_sessions' = active_sessions]_vars

\* The session state of the design, read off the handler: AwaitingStart
\* until a start succeeded, Finalizing while finalize() awaits recognition,
\* Ended once the handler is over.
SessionState(s) ==
    IF pc[s] = "idle" THEN "Unconnected"
    ELSE IF pc[s] = "done" THEN "Ended"
    ELSE IF pc[s] = "final_await" THEN "Finalizing"
    ELSE IF Started(s) THEN "Recording"
    ELSE "AwaitingStart"

\* C11: a `stop` received before any `start` is answered with an error and
\* leaves the session in AwaitingStart: no registry entry, no meeting row,
\* no recognition.
C11_StopBeforeStartRejected ==
    [][\A s \in Sessions :
          (~Started(s) /\ \E ok \in BOOLEAN : RecvStop(s, ok))
          => /\ Sent(s, "error")'
             /\ SessionState(s)' = "AwaitingStart"
             /\ active_sessions' = active_sessions
             /\ meetings' = meetings
             /\ recog_calls' = recog_calls]_vars

\* C12: an `audio` received before any `start` is answered with an error and
\* changes nothing: the session stays AwaitingStart with the connection open,
\* no registry entry or meeting row appears, nothing is buffered and no
\* recognition is issued.
C12_AudioBeforeStartRejected ==
    [][\A s \in Sessions :
          (~Started(s) /\ \E p \in AudioPayloads : RecvAudio(s, p))
          => /\ Sent(s, "error")'
             /\ pc'[s] = "recv"
             /\ SessionState(s)' = "AwaitingStart"
             /\ s \notin DOMAIN active_sessions'
             /\ active_sessions' = active_sessions
             /\ meetings' = meetings
             /\ appended' = appended
             /\ recog' = recog
             /\ recog_calls' = recog_calls]_vars

\* C12 witness: a connection that has just been refused an early `audio`.
C12_Witness ==
    \E s \in Sessions :
        /\ last_event[s] = "audio"
        /\ ~Started(s)
        /\ pc[s] = "recv"
        /\ Sent(s, "error")

\* C13: the session state moves only AwaitingStart -> Recording (by a start
\* from AwaitingStart) -> Finalizing (by a stop) -> Ended, a started session
\* is Ended only with the final transcript produced, and nothing happens to
\* a session once Ended.
C13_StateMachine ==
    [][\A s \in Sessions :
          /\ ((\E l \in Languages, o \in StartOutcomes : RecvStart(s, l, o))
                 /\ Sent(s, "session_started")')
                => SessionState(s) = "AwaitingStart"
          /\ SessionState(s)' # SessionState(s)
                => << SessionState(s), SessionState(s)' >> \in
                      { << "Unconnected", "AwaitingStart" >>,
                        << "AwaitingStart", "Recording" >>,
                        << "AwaitingStart", "Ended" >>,
                        << "Recording", "Finalizing" >>,
                        << "Recording", "Ended" >>,
                        << "Finalizing", "Ended" >> }
          /\ (SessionState(s)' = "Ended" /\ Started(s))
                => fin_results'[s] # << >>
          /\ SessionState(s) = "Ended"
                => /\ pc'[s] = pc[s]
                   /\ svc'[s] = svc[s]
                   /\ lastOut'[s] = lastOut[s]]_vars

\* C14: the registry never leaks: once a connection handler has finished,
\* whichever way (stop, disconnect, an exception after the entry was
\* inserted), active_sessions holds no entry for its session.
C14_NoRegistryLeak ==
    \A s \in Sessions : pc[s] = "done" => s \notin DOMAIN active_sessions

\* C14 witness: a started session ended by an exception while the other
\* session is still registered.
C14_Witness ==
    \E s \in Sessions, t \in Sessions :
        /\ s # t
        /\ pc[s] = "done" /\ Started(s) /\ last_event[s] = "malformed"
        /\ t \in DOMAIN active_sessions

\* C15: the registry holds an entry for a session exactly while the session
\* is Recording or Finalizing, the entry's meeting id is the meeting id the
\* session is associated with (the one its service was built with, which is
\* also the handler's own meeting id as long as the handler has not left the
\* loop on an exception), and a session awaiting `start` has no entry.
C15_RegistryLifecycle ==
    \A s \in Sessions :
        /\ s \in DOMAIN active_sessions
              <=> SessionState(s) \in {"Recording", "Finalizing"}
        /\ s \in DOMAIN active_sessions
              => /\ active_sessions[s].meeting_id = Service(s).meeting_id
                 /\ pc[s] # "error_send"
                       => active_sessions[s].meeting_id = meeting_id[s]
        /\ SessionState(s) = "AwaitingStart" => s \notin DOMAIN active_sessions

\* C15 witness: one session registered under its meeting while the other,
\* started on another meeting, has ended and is no longer registered.
C15_Witness ==
    \E s \in Sessions, t \in Sessions :
        /\ s # t
        /\ s \in DOMAIN active_sessions /\ active_sessions[s].meeting_id = 2
        /\ pc[t] = "done" /\ Started(t) /\ meeting_id[t] = 1
        /\ t \notin DOMAIN active_sessions

\* The running duration once the chunk of payload p is accounted for.
AfterAppend(s, p) ==
    FloatAdd(Service(s).buffer_duration, FloatOfSamples(DecodeSamples(p)))

\* C16: in Recording an `audio` event dispatches a recognition exactly when
\* its append brings the running duration to 3.0 s or more, so whenever the
\* handler is back at receive the running duration is below 3.0 s.
C16_FlushExactlyAtThreshold ==
    [][\A s \in Sessions :
          /\ \A p \in AudioPayloads :
                (Started(s) /\ pc[s] = "recv" /\ p.present /\ DecodeSamples(p) >= 0
                    /\ appended'[s] = Append(appended[s], DecodeSamples(p))
                    /\ RecvAudio(s, p))
                => /\ (pc'[s] = "audio_await" /\ recog_calls'[s] = recog_calls[s] + 1)
                         <=> FloatGeq(AfterAppend(s, p), FloatOfInt(MinBufferSeconds))
                   /\ (pc'[s] = "recv" /\ recog_calls'[s] = recog_calls[s])
                         <=> ~FloatGeq(AfterAppend(s, p), FloatOfInt(MinBufferSeconds))
          /\ (Started(s)' /\ pc'[s] = "recv")
                => ~FloatGeq(Service(s)'.buffer_duration,
                             FloatOfInt(MinBufferSeconds))]_vars

\* C16 witness: a recognition dispatched by the third 1.2 s chunk.
C16_Witness ==
    \E s \in Sessions :
        /\ pc[s] = "audio_await"
        /\ appended[s] = <<19200, 19200, 19200>>
        /\ FloatGeq(Service(s).buffer_duration, FloatOfInt(MinBufferSeconds))
        /\ ~FloatGeq(Service(s).buffer_duration, FloatOfInt(MinBufferSeconds + 1))

\* C17 as stated: the running duration observed at a flush never exceeds
\* twice the threshold (6.0 s).
C17_FlushWithinTwiceThreshold ==
    \A s \in Sessions :
        pc[s] = "audio_await"
        => FloatGeq(FloatOfInt(2 * MinBufferSeconds), Service(s).buffer_duration)

\* C17 amended: the flush condition is true as soon as the running duration
\* is 3.0 s or more, so no append starts from 3.0 s or more, and when no
\* single chunk is longer than the threshold the running duration observed
\* at a flush does not exceed twice the threshold.
C17_FlushWithinTwiceThresholdSmallChunks ==
    \A s \in Sessions :
        /\ (Started(s) /\ pc[s] \in {"recv", "audio_await"}
               /\ FloatGeq(Service(s).buffer_duration, FloatOfInt(MinBufferSeconds)))
              => pc[s] = "audio_await"
        /\ (pc[s] = "audio_await"
               /\ \A i \in 1..Len(appended[s]) : appended[s][i] <= MinBufferSamples)
              => FloatGeq(FloatOfInt(2 * MinBufferSeconds),
                          Service(s).buffer_duration)

\* C17 witness: a flush of 4.4 s made of chunks of at most 2.0 s.
C17_Witness ==
    \E s \in Sessions :
        /\ pc[s] = "audio_await"
        /\ \A i \in 1..Len(appended[s]) : appended[s][i] <= MinBufferSamples
        /\ SumSeq(appended[s]) = 70400
        /\ FloatGeq(Service(s).buffer_duration, FloatOfInt(MinBufferSeconds + 1))

\* C18: the buffer of a service never holds more than 100 chunks, whatever
\* the sequence of audio chunks.
C18_BufferCapped ==
    \A s \in Sessions : Started(s) => Len(Service(s).audio_buffer) <= BufferMaxLen

\* C18 witness: a full buffer after more than 100 chunks were appended.
C18_Witness ==
    \E s \in Sessions :
        /\ Started(s)
        /\ Len(Service(s).audio_buffer) = BufferMaxLen
        /\ Len(appended[s]) > BufferMaxLen

\* C19: an `audio` event whose payload cannot be decoded (not base64, or an
\* odd number of bytes) leaves buffer, running duration and fragments as
\* they were, sends nothing, and leaves the session in Recording at receive,
\* where the next `audio` event is taken like any other.
C19_DecodeFailureDropsMessage ==
    [][\A s \in Sessions : \A p \in AudioPayloads :
          (Started(s) /\ p.present /\ (~p.b64ok \/ p.nbytes % 2 = 1)
              /\ RecvAudio(s, p))
          => /\ svc'[s] = svc[s]
             /\ lastOut'[s] = << >> /\ emitted'[s] = emitted[s]
             /\ recog_calls'[s] = recog_calls[s]
             /\ SessionState(s)' = "Recording" /\ pc'[s] = "recv"
             /\ s \in DOMAIN active_sessions']_vars

\* C19 witness: a payload was dropped while the buffer held a chunk.
C19_Witness ==
    \E s \in Sessions :
        /\ last_event[s] = "audio_dropped"
        /\ Started(s) /\ pc[s] = "recv"
        /\ Service(s).audio_buffer # << >>

\* C20: when the model call of a flushed block raises, no fragment is added
\* and no transcript is sent, the block is dropped (buffer empty, running
\* duration zero), and the session stays in Recording with its connection
\* open.
C20_RecognitionFailureAbsorbed ==
    [][\A s \in Sessions :
          (pc[s] = "audio_await" /\ RecogDone(s, Raised))
          => /\ Service(s)'.full_transcript = Service(s).full_transcript
             /\ lastOut'[s] = << >> /\ emitted'[s] = emitted[s]
             /\ Service(s)'.audio_buffer = << >>
             /\ Service(s)'.buffer_duration = FloatZero
             /\ SessionState(s)' = "Recording" /\ pc'[s] = "recv"
             /\ s \in DOMAIN active_sessions']_vars

\* C20 witness: the handler back at receive after a recognition that raised,
\* one earlier fragment kept.
C20_Witness ==
    \E s \in Sessions :
        /\ pc[s] = "recv" /\ last_event[s] = "audio"
        /\ ~IsNone(recog[s]) /\ Get(recog[s]).done /\ Get(recog[s]).raised
        /\ Len(Service(s).full_transcript) = 1
        /\ Service(s).buffer_duration = FloatZero

\* C21: a flush during Recording sends a `transcript` message exactly when
\* the recognition of its block returned text that is not blank; then one
\* message with that text is sent and one fragment with that text is added
\* at the end of the list; otherwise nothing is added and nothing is sent.
C21_TranscriptIffText ==
    [][\A s \in Sessions : \A o \in RecogOutcomes :
          (pc[s] = "audio_await" /\ RecogDone(s, o))
          => LET spoke == ~o.raised /\ \E i \in 1..Len(o.text) : o.text[i] \notin Whitespace
                 ft == Service(s).full_transcript
                 ft2 == Service(s)'.full_transcript
             IN /\ Sent(s, "transcript")' <=> spoke
                /\ spoke => /\ Len(lastOut'[s]) = 1
                            /\ lastOut'[s][1].type = "transcript"
                            /\ lastOut'[s][1].text = Strip(o.text)
                            /\ Len(ft2) = Len(ft) + 1
                            /\ SubSeq(ft2, 1, Len(ft)) = ft
                            /\ ft2[Len(ft2)].text = Strip(o.text)
                /\ ~spoke => /\ lastOut'[s] = << >>
                             /\ ft2 = ft]_vars

\* C21 witness: a second flush that returned blank text, after a first one
\* whose text was sent and kept.
C21_Witness ==
    \E s \in Sessions :
        /\ pc[s] = "recv" /\ last_event[s] = "audio"
        /\ recog_calls[s] = 2 /\ Len(emitted[s]) = 1
        /\ Get(recog[s]).done /\ ~Get(recog[s]).raised /\ Get(recog[s]).text = << >>
        /\ Len(Service(s).full_transcript) = 1
        /\ lastOut[s] = << >>

IsPrefix(a, b) == Len(a) <= Len(b) /\ SubSeq(b, 1, Len(a)) = a

\* C22: from `start` until Ended the fragment list of a session only grows
\* at its end: after any event the earlier list is a prefix of the list.
C22_FragmentsAppendOnly ==
    [][\A s \in Sessions :
          (Started(s) /\ Started(s)')
          => IsPrefix(Service(s).full_transcript, Service(s)'.full_transcript)]_vars

\* C23: start, three `audio` events of 1.2 s whose recognition returns blank
\* text, then `stop`: the first two events dispatch nothing, the third one
\* flushes the three chunks, the blank result sends nothing and empties the
\* buffer, and `stop` on the empty buffer calls no recognition and sends
\* session_ended with an empty final_transcript and word count 0.
C23_SilentScenario ==
    [][\A s \in Sessions :
          LET p == Payload(TRUE, 38400)
              c == 19200
          IN /\ (Started(s) /\ pc[s] = "recv" /\ appended[s] \in {<< >>, <<c>>}
                    /\ appended'[s] = Append(appended[s], c) /\ RecvAudio(s, p))
                   => /\ pc'[s] = "recv" /\ lastOut'[s] = << >>
                      /\ recog_calls'[s] = recog_calls[s]
             /\ (Started(s) /\ pc[s] = "recv" /\ appended[s] = <<c, c>>
                    /\ appended'[s] = <<c, c, c>> /\ RecvAudio(s, p))
                   => /\ pc'[s] = "audio_await"
                      /\ recog_calls'[s] = recog_calls[s] + 1
                      /\ Get(recog'[s]).block = <<c, c, c>>
             /\ (pc[s] = "audio_await" /\ pc'[s] = "recv"
                    /\ RecogDone(s, Returned(<<SP>>)))
                   => /\ lastOut'[s] = << >> /\ emitted'[s] = emitted[s]
                      /\ Service(s)'.audio_buffer = << >>
                      /\ Service(s)'.buffer_duration = FloatZero
                      /\ Service(s)'.full_transcript = Service(s).full_transcript
             /\ (Started(s) /\ pc[s] = "recv" /\ Service(s).audio_buffer = << >>
                    /\ Service(s).full_transcript = << >>
                    /\ last_event'[s] = "stop" /\ RecvStop(s, TRUE))
                   => /\ recog_calls'[s] = recog_calls[s]
                      /\ pc'[s] = "done"
                      /\ Len(lastOut'[s]) = 1
                      /\ lastOut'[s][1].type = "session_ended"
                      /\ lastOut'[s][1].final_transcript = << >>
                      /\ lastOut'[s][1].word_count = 0]_vars

\* C23 witness: the scenario played to its end: one recognition, of three
\* 1.2 s chunks, blank; nothing emitted; session_ended with an empty text.
C23_Witness ==
    \E s \in Sessions :
        /\ pc[s] = "done" /\ last_event[s] = "stop"
        /\ Len(meetings) = 1
        /\ recog_calls[s] = 1
        /\ Get(recog[s]).block = <<19200, 19200, 19200>>
        /\ Get(recog[s]).done /\ ~Get(recog[s]).raised /\ Get(recog[s]).text = << >>
        /\ emitted[s] = << >>
        /\ Sent(s, "session_ended")
        /\ lastOut[s][1].final_transcript = << >>
        /\ lastOut[s][1].word_count = 0

\* C24: whenever GET /sessions answers, whatever the other connections are
\* doing, the answer lists exactly the sessions in the registry at that
\* moment with each entry's meeting id and start time, and the call changes
\* neither the registry nor any session's service.
C24_EnumerationSafe ==
    [][listing' # listing
          => /\ ~IsNone(listing')
             /\ LET r == Get(listing')
                IN /\ {x.session_id : x \in r.sessions} = DOMAIN active_sessions
                   /\ r.active_sessions = Cardinality(DOMAIN active_sessions)
                   /\ \A x \in r.sessions :
                         /\ x.meeting_id = active_sessions[x.session_id].meeting_id
                         /\ x.start_time = active_sessions[x.session_id].start_time
                         /\ x.meeting_id = meeting_id[x.session_id]
             /\ active_sessions' = active_sessions
             /\ svc' = svc /\ pc' = pc /\ meetings' = meetings
             /\ recog' = recog]_vars

\* C24 witness: an answer listing one session, while that session is
\* suspended in a recognition and the other one has already ended.
C24_Witness ==
    \E s \in Sessions, t \in Sessions :
        /\ s # t
        /\ ~IsNone(listing)
        /\ {x.session_id : x \in Get(listing).sessions} = {s}
        /\ DOMAIN active_sessions = {s}
        /\ pc[s] = "audio_await"
        /\ pc[t] = "done" /\ Started(t)

\* a step of the handler of connection a
HandlerStep(a) ==
    \/ Connect(a)
    \/ \E o \in StartOutcomes : RecvStart(a, "en", o)
    \/ \E p \in PairPayloads : RecvAudio(a, p)
    \/ \E o \in PairOutcomes : RecogDone(a, o)
    \/ \E ok \in BOOLEAN : RecvStop(a, ok)
    \/ \E o \in PairOutcomes, ok \in BOOLEAN : FinalDone(a, o, ok)
    \/ RecvMalformed(a)
    \/ Finally(a)
    \/ Disconnect(a)

\* C26: a step of one connection's handler never changes another
\* connection's service (buffer, running duration, fragments), meeting id
\* or registry entry, also while that other connection awaits a recognition.
C26_SessionIsolation ==
    [][\A a \in Sessions, b \in Sessions :
          (a # b /\ HandlerStep(a))
          => /\ svc'[b] = svc[b]
             /\ meeting_id'[b] = meeting_id[b]
             /\ pc'[b] = pc[b]
             /\ (b \in DOMAIN active_sessions') = (b \in DOMAIN active_sessions)
             /\ b \in DOMAIN active_sessions
                   => active_sessions'[b] = active_sessions[b]]_vars

\* C26 witness: one connection has started, recorded and stopped while the
\* other, started before it, is suspended in a recognition with its two
\* chunks and still registered.
C26_Witness ==
    \E a \in Sessions, b \in Sessions :
        /\ a # b
        /\ pc[b] = "audio_await" /\ Len(Service(b).audio_buffer) = 2
        /\ meeting_id[b] = 1 /\ b \in DOMAIN active_sessions
        /\ pc[a] = "done" /\ last_event[a] = "stop" /\ meeting_id[a] = 2
        /\ Len(fin_results[a]) = 1

StatusWorkflow ==
    { <<"uploading", "processing">>, <<"processing", "completed">>,
      <<"processing", "failed">> }

\* C25: the status of a meeting only ever moves UPLOADING -> PROCESSING,
\* PROCESSING -> COMPLETED or PROCESSING -> FAILED, whatever the uploads, the
\* task runs (failures and retries included) and the live sessions do (the
\* deletion of a row is not a change of its status).
C25_StatusWorkflow ==
    [][/\ \A m \in DOMAIN uploads :
             (uploads'[m].status # uploads[m].status
                 /\ uploads'[m].status # "deleted")
             => << uploads[m].status, uploads'[m].status >> \in StatusWorkflow
       /\ \A i \in DOMAIN meetings :
             (meetings'[i].status # meetings[i].status
                 /\ meetings'[i].status # "deleted")
             => << meetings[i].status, meetings'[i].status >> \in StatusWorkflow]_vars

\* C30: when an attempt of the task raises, the meeting is marked FAILED and
\* the task is queued again with countdown 60 * 2^retries, at most 3 times;
\* once the task has returned for good the status is COMPLETED or FAILED;
\* an attempt that finds the meeting COMPLETED returns already_processed
\* and changes nothing of the meeting (all of it for a meeting whose row has
\* not been deleted).
C30_TaskEndsDefinite ==
    [][\A m \in DOMAIN task :
          /\ (task[m].at = "failing" /\ task'[m] # task[m])
                => (RowExists(uploads, m) => uploads'[m].status = "failed")
          /\ (task[m].at = "retrying" /\ task'[m] # task[m])
                => IF task[m].retries < 3
                   THEN /\ task'[m].at = "queued"
                        /\ task'[m].retries = task[m].retries + 1
                        /\ task'[m].countdown = 60 * Pow2(task[m].retries)
                   ELSE task'[m].at = "returned"
          /\ task'[m].retries <= 3
          /\ task'[m].at = "returned"
                => uploads'[m].status \in {"completed", "failed", "deleted"}
          /\ (task[m].at = "queued" /\ uploads[m].status = "completed"
                 /\ task'[m] # task[m])
                => /\ task'[m].ret = "already_processed"
                   /\ uploads'[m] = uploads[m]]_vars

RECURSIVE IsSubseq(_, _)
IsSubseq(a, b) ==
    IF a = << >> THEN TRUE
    ELSE IF b = << >> THEN FALSE
    ELSE IF Head(a) = Head(b) THEN IsSubseq(Tail(a), Tail(b))
    ELSE IsSubseq(a, Tail(b))

\* C27: when a connection ends with session_ended, every text it was sent
\* in a `transcript` message is in the final transcript, in sending order:
\* the texts sent are a subsequence of the segments joined into it.
C27_EmittedInFinal ==
    \A s \in Sessions :
        (pc[s] = "done" /\ Sent(s, "session_ended"))
        => LET r == fin_results[s][Len(fin_results[s])]
           IN /\ lastOut[s][1].final_transcript = Join(Texts(r.segments))
              /\ IsSubseq(Texts(emitted[s]), Texts(r.segments))

\* C28: session_ended is sent only once finalize has returned, the meeting
\* row (when it exists: never committed, or deleted since, it does not) holds
\* the final transcript, the duration and status COMPLETED, committed, and
\* the session's registry entry is gone.
C28_EndedAfterSaveAndCleanup ==
    \A s \in Sessions :
        Sent(s, "session_ended")
        => /\ fin_results[s] # << >>
           /\ LET r == fin_results[s][Len(fin_results[s])]
                  mid == lastOut[s][1].meeting_id
              IN /\ lastOut[s][1].final_transcript = r.full_transcript
                 /\ lastOut[s][1].duration = r.duration
                 /\ mid = meeting_id[s]
                 /\ RowExists(meetings, mid)
                       => /\ meetings[mid].status = "completed"
                          /\ meetings[mid].transcript = Some(r.full_transcript)
                          /\ meetings[mid].duration_seconds = Some(r.duration)
           /\ s \notin DOMAIN active_sessions

\* C28 witness: session_ended sent with a transcript that is not empty.
C28_Witness ==
    \E s \in Sessions :
        /\ Sent(s, "session_ended")
        /\ lastOut[s][1].final_transcript # << >>
        /\ meetings[meeting_id[s]].status = "completed"

\* C29: a `ping` or a message of unknown type, in any state of the session,
\* is answered with exactly one message (pong, respectively error) and
\* changes nothing else: same session state, service, meeting rows and
\* registry, and the handler is at receive again.
C29_PingUnknownFrame ==
    [][\A s \in Sessions :
          /\ (pc[s] = "recv" /\ RecvPing(s))
                => /\ Len(lastOut'[s]) = 1 /\ lastOut'[s][1].type = "pong"
          /\ (pc[s] = "recv" /\ RecvUnknown(s))
                => /\ Len(lastOut'[s]) = 1 /\ lastOut'[s][1].type = "error"
          /\ (pc[s] = "recv" /\ (RecvPing(s) \/ RecvUnknown(s)))
                => /\ SessionState(s)' = SessionState(s)
                   /\ pc'[s] = "recv"
                   /\ svc' = svc /\ meeting_id' = meeting_id
                   /\ meetings' = meetings
                   /\ active_sessions' = active_sessions
                   /\ recog_calls' = recog_calls /\ emitted' = emitted]_vars

\* C29 witness: a ping answered while the buffer holds a chunk.
C29_Witness ==
    \E s \in Sessions :
        /\ last_event[s] = "ping" /\ Sent(s, "pong")
        /\ Started(s) /\ pc[s] = "recv"
        /\ Service(s).audio_buffer # << >>
        /\ s \in DOMAIN active_sessions
====
